---- MODULE Spec2Model ----
(***************************************************************************)
(* A model of the Express user backend: the validator                      *)
(* (utils/validation), the file-backed CRUD handlers of app.js, the        *)
(* middleware order of app.js and the JWT middleware authenticateToken.    *)
(***************************************************************************)
EXTENDS Integers, Sequences, FiniteSets

VARIABLES
    file,        \* users.json: [ok, users]; ok = FALSE is text that is not JSON
    req,         \* per in-flight request: position, inputs, locals, response
    crashed,     \* an exception escaped a callback: the process is gone
    started,     \* number of requests received so far
    lastWriter,  \* the request whose writeFile completed last
    nodeEnv,     \* process.env.NODE_ENV
    call,        \* the validator call under test: arguments and result
    auth         \* per request through authenticateToken: position and outcome

vars == <<file, req, crashed, started, lastWriter, nodeEnv, call, auth>>

(***************************************************************************)
(* JavaScript values.  Every value is a record of one shape:               *)
(*   t  the kind: "undefined", "null", "number", "string"                  *)
(*   k  for a number: "finite", "Infinity" or "NaN"                        *)
(*   n  for a finite number: its integer part                              *)
(*   f  for a finite number: its fractional part in tenths                 *)
(*   s  for a string: its characters                                       *)
(***************************************************************************)
Undefined == [t |-> "undefined", k |-> "", n |-> 0, f |-> 0, s |-> <<>>]
Null == [t |-> "null", k |-> "", n |-> 0, f |-> 0, s |-> <<>>]
Num(i) == [t |-> "number", k |-> "finite", n |-> i, f |-> 0, s |-> <<>>]
Frac(i, tenths) == [t |-> "number", k |-> "finite", n |-> i, f |-> tenths, s |-> <<>>]
Infinity == [t |-> "number", k |-> "Infinity", n |-> 0, f |-> 0, s |-> <<>>]
NaN == [t |-> "number", k |-> "NaN", n |-> 0, f |-> 0, s |-> <<>>]
Str(chars) == [t |-> "string", k |-> "", n |-> 0, f |-> 0, s |-> chars]

\* typeof v
TypeOf(v) == IF v.t = "null" THEN "object" ELSE v.t

\* a === b: same type and same value, and NaN equals nothing
StrictEq(a, b) == a = b /\ ~(a.t = "number" /\ a.k = "NaN")

\* Number.isInteger-like: what the specification calls "of integer type"
IsInteger(v) == v.t = "number" /\ v.k = "finite" /\ v.f = 0

Digits == {"0", "1", "2", "3", "4", "5", "6", "7", "8", "9"}
DigitVal(c) == CHOOSE d \in 0..9 : <<"0", "1", "2", "3", "4", "5", "6", "7", "8", "9">>[d + 1] = c

\* \w of a JavaScript regular expression
WordChars == Digits \cup {"_"} \cup
    {"a", "b", "c", "d", "e", "f", "g", "h", "i", "j", "k", "l", "m",
     "n", "o", "p", "q", "r", "s", "t", "u", "v", "w", "x", "y", "z",
     "A", "B", "C", "D", "E", "F", "G", "H", "I", "J", "K", "L", "M",
     "N", "O", "P", "Q", "R", "S", "T", "U", "V", "W", "X", "Y", "Z"}

\* String(v), the coercion RegExp.prototype.test applies to its argument
RECURSIVE DigitsOf(_)
DigitsOf(i) ==
    IF i < 10 THEN <<<<"0", "1", "2", "3", "4", "5", "6", "7", "8", "9">>[i + 1]>>
    ELSE Append(DigitsOf(i \div 10), <<"0", "1", "2", "3", "4", "5", "6", "7", "8", "9">>[(i % 10) + 1])

JsString(v) ==
    CASE v.t = "string" -> v.s
      [] v.t = "undefined" -> <<"u", "n", "d", "e", "f", "i", "n", "e", "d">>
      [] v.t = "null" -> <<"n", "u", "l", "l">>
      [] v.t = "number" /\ v.k = "NaN" -> <<"N", "a", "N">>
      [] v.t = "number" /\ v.k = "Infinity" -> <<"I", "n", "f", "i", "n", "i", "t", "y">>
      [] OTHER ->
            (IF v.n < 0 THEN <<"-">> ELSE <<>>)
            \o DigitsOf(IF v.n < 0 THEN -v.n ELSE v.n)
            \o (IF v.f = 0 THEN <<>> ELSE <<".">> \o DigitsOf(v.f))

(***************************************************************************)
(* The validator.                                                          *)
(***************************************************************************)
MinNameLen == 3
TldMin == 2
TldMax == 4

\* /^[\w-\.]+@([\w-]+\.)+[\w-]{2,4}$/ on a sequence of characters
MatchesEmailRegex(e) ==
    \E at \in 1..Len(e) :
        /\ e[at] = "@"
        /\ at >= 2
        /\ \A i \in 1..(at - 1) : e[i] \in WordChars \cup {"-", "."}
        /\ \E dot \in (at + 2)..Len(e) :
            \* the last dot: the labels before it, the top-level label after
            /\ e[dot] = "."
            /\ Len(e) - dot >= TldMin
            /\ Len(e) - dot <= TldMax
            /\ \A i \in (dot + 1)..Len(e) : e[i] \in WordChars \cup {"-"}
            /\ \A i \in (at + 1)..(dot - 1) : e[i] \in WordChars \cup {"-", "."}
            /\ e[at + 1] # "."
            /\ \A i \in (at + 1)..(dot - 1) : ~(e[i] = "." /\ e[i + 1] = ".")

isValidEmail(email) == MatchesEmailRegex(JsString(email))

isValidName(name) == TypeOf(name) = "string" /\ Len(name.s) >= MinNameLen

isUniqueNumericIdIntegerOnly(id, users) ==
    IsInteger(id) /\ ~(\E i \in 1..Len(users) : StrictEq(users[i].id, id))

isUniqueNumericId(id, users) ==
    TypeOf(id) = "number" /\ ~(\E i \in 1..Len(users) : StrictEq(users[i].id, id))

NameError == "El nombre debe tener al menos 3 caracteres."
EmailError == "El correo electronico no es valido."
IdError == "El ID debe ser numerico y unico."

validateUserEmailFirst(user, users, userIdBeingUpdated) ==
    IF ~isValidEmail(user.email)
    THEN [isValid |-> FALSE, error |-> EmailError]
    ELSE IF ~isValidName(user.name)
    THEN [isValid |-> FALSE, error |-> NameError]
    ELSE IF ~StrictEq(user.id, userIdBeingUpdated) /\ ~isUniqueNumericId(user.id, users)
    THEN [isValid |-> FALSE, error |-> IdError]
    ELSE [isValid |-> TRUE, error |-> ""]

validateUser(user, users, userIdBeingUpdated) ==
    IF ~isValidName(user.name)
    THEN [isValid |-> FALSE, error |-> NameError]
    ELSE IF ~isValidEmail(user.email)
    THEN [isValid |-> FALSE, error |-> EmailError]
    ELSE IF ~StrictEq(user.id, userIdBeingUpdated) /\ ~isUniqueNumericId(user.id, users)
    THEN [isValid |-> FALSE, error |-> IdError]
    ELSE [isValid |-> TRUE, error |-> ""]

(***************************************************************************)
(* Inputs of the validator calls.                                          *)
(***************************************************************************)
ValidEmail == Str(<<"a", "@", "b", ".", "c", "o">>)
NameCamilo == Str(<<"C", "a", "m", "i", "l", "o">>)
NameCami == Str(<<"C", "a", "m", "i">>)
NameCa == Str(<<"C", "a">>)

User(id, name, email) == [id |-> id, name |-> name, email |-> email]

NameInputs ==
    {NameCamilo, NameCami, NameCa, Str(<<"a", "b", "c">>), Str(<<>>),
     Undefined, Null, Num(123)}

EmailInputs ==
    {ValidEmail,
     Str(<<"a", ".", "b", "-", "c", "@", "d", "-", "e", ".", "f", ".", "o", "r", "g">>),
     Str(<<"a", "@", "b">>),
     Str(<<"n", "o", "-", "a", "t", "-", "s", "i", "g", "n">>),
     Str(<<"a", "@", "b", ".", "c">>),
     Str(<<"a", "@", "b", ".", "a", "b", "c", "d", "e">>),
     Str(<<"@", "b", ".", "c", "o">>),
     Str(<<"a", "@", ".", "c", "o">>),
     Str(<<"a", "@", "b", ".", ".", "c", "o">>),
     Str(<<"a", " ", "@", "b", ".", "c", "o">>),
     Undefined, Null, Num(5)}

IdInputs ==
    {Num(1), Num(2), Num(5), Frac(5, 5), Str(<<"5">>), Str(<<"1">>),
     Undefined, Null, Infinity, NaN}

UsersInputs ==
    {<<>>,
     <<User(Num(1), NameCamilo, ValidEmail)>>,
     <<User(Num(1), NameCamilo, ValidEmail), User(Num(2), NameCami, ValidEmail)>>,
     <<User(Str(<<"5">>), NameCamilo, ValidEmail), User(Null, NameCami, ValidEmail)>>}

UpdatedIdInputs == {Undefined, Num(1), Num(2), Num(5), NaN}

NoCall == [fn |-> "none", user |-> User(Undefined, Undefined, Undefined),
           users |-> <<>>, upd |-> Undefined,
           result |-> [isValid |-> FALSE, error |-> ""]]

\* the arguments of a call that has not been made yet
PendingCalls ==
    {[fn |-> "pending", user |-> User(id, name, email), users |-> users, upd |-> upd,
      result |-> [isValid |-> FALSE, error |-> ""]] :
        id \in IdInputs, name \in NameInputs, email \in EmailInputs,
        users \in UsersInputs, upd \in UpdatedIdInputs}

\* validateUser(user, users, userIdBeingUpdated)
CallValidateUser ==
    /\ call.fn = "pending"
    /\ call' = [call EXCEPT !.fn = "validateUser",
                            !.result = validateUser(call.user, call.users, call.upd)]
    /\ UNCHANGED <<file, req, crashed, started, lastWriter, nodeEnv, auth>>

\* isUniqueNumericId(id, users)
CallIsUniqueNumericId ==
    /\ call.fn = "pending"
    /\ call' = [call EXCEPT !.fn = "isUniqueNumericId",
                            !.result = [isValid |-> isUniqueNumericId(call.user.id, call.users),
                                        error |-> ""]]
    /\ UNCHANGED <<file, req, crashed, started, lastWriter, nodeEnv, auth>>

(***************************************************************************)
(* JSON and path conversions.                                              *)
(***************************************************************************)
\* JSON.stringify of one value: a number that is not finite is written null;
\* a property whose value is undefined is left out (it reads back undefined)
Stringify(v) == IF v.t = "number" /\ v.k # "finite" THEN Null ELSE v

StringifyUser(u) == [id |-> Stringify(u.id), name |-> Stringify(u.name),
                     email |-> Stringify(u.email)]

\* JSON.stringify(users, null, 2) read back by JSON.parse
StringifyUsers(users) == [i \in 1..Len(users) |-> StringifyUser(users[i])]

\* the number of leading decimal digits of a path segment
RECURSIVE LeadingDigits(_)
LeadingDigits(chars) ==
    IF chars = <<>> \/ Head(chars) \notin Digits THEN 0
    ELSE 1 + LeadingDigits(Tail(chars))

RECURSIVE DigitsValue(_, _)
DigitsValue(chars, count) ==
    IF count = 0 THEN 0
    ELSE 10 * DigitsValue(chars, count - 1) + DigitVal(chars[count])

\* parseInt(segment, 10): the leading digits, NaN when there are none
parseInt(chars) ==
    IF LeadingDigits(chars) = 0 THEN NaN
    ELSE Num(DigitsValue(chars, LeadingDigits(chars)))

\* Object.keys(body).length === 0, or no body at all
IsEmptyBodyNever(body) == FALSE

IsEmptyBody(body) == body.id = Undefined /\ body.name = Undefined /\ body.email = Undefined

\* {...user, ...updatedUser}
SpreadKeepsOld(user, updatedUser) == user

Spread(user, updatedUser) ==
    [id |-> IF updatedUser.id = Undefined THEN user.id ELSE updatedUser.id,
     name |-> IF updatedUser.name = Undefined THEN user.name ELSE updatedUser.name,
     email |-> IF updatedUser.email = Undefined THEN user.email ELSE updatedUser.email]

\* user.push(newUser)
pushFront(users, newUser) == <<newUser>> \o users

push(users, newUser) == Append(users, newUser)

\* users.map(user => (user.id === userId ? {...user, ...updatedUser} : user))
MapUpdateEveryRecord(users, userId, updatedUser) ==
    [i \in 1..Len(users) |-> Spread(users[i], updatedUser)]

MapUpdate(users, userId, updatedUser) ==
    [i \in 1..Len(users) |->
        IF StrictEq(users[i].id, userId) THEN Spread(users[i], updatedUser)
        ELSE users[i]]

\* users.filter(user => user.id !== userId)
RECURSIVE FilterOut(_, _)
FilterOutDropsHead(users, userId) ==
    IF users = <<>> THEN <<>> ELSE Tail(users)

FilterOut(users, userId) ==
    IF users = <<>> THEN <<>>
    ELSE IF StrictEq(Head(users).id, userId) THEN FilterOut(Tail(users), userId)
    ELSE <<Head(users)>> \o FilterOut(Tail(users), userId)

(***************************************************************************)
(* The application's stack, in the order app.js registers it.              *)
(***************************************************************************)
Stack ==
    <<[name |-> "express.json", type |-> "middleware"],
      [name |-> "express.urlencoded", type |-> "middleware"],
      [name |-> "LoggerMiddleware", type |-> "middleware"],
      [name |-> "errorHandler", type |-> "error"],
      [name |-> "GET /", type |-> "route"],
      [name |-> "GET /search", type |-> "route"],
      [name |-> "POST /form", type |-> "route"],
      [name |-> "POST /api/data", type |-> "route"],
      [name |-> "GET /users", type |-> "route"],
      [name |-> "GET /users/:id", type |-> "route"],
      [name |-> "POST /users", type |-> "route"],
      [name |-> "PUT /users/:id", type |-> "route"],
      [name |-> "DELETE /users/:id", type |-> "route"],
      [name |-> "GET /error", type |-> "route"],
      [name |-> "GET /db-users", type |-> "route"]>>

\* Express's next(): from layer i on, the first layer that handles the
\* request; with an error, only a four-argument handler does.  0: none is
\* left and Express's own final handler answers.
RECURSIVE NextLayer(_, _, _)
NextLayer(i, route, hasError) ==
    IF i > Len(Stack) THEN 0
    ELSE IF hasError
    THEN (IF Stack[i].type = "error" THEN i ELSE NextLayer(i + 1, route, hasError))
    ELSE IF Stack[i].type = "route" /\ Stack[i].name = route THEN i
    ELSE NextLayer(i + 1, route, hasError)

\* the layer whose handler answers a request without error
RouteLayer(route) == NextLayer(1, route, FALSE)

(***************************************************************************)
(* Responses.                                                              *)
(***************************************************************************)
NoRes == [status |-> 0, shape |-> "none", msg |-> "", data |-> <<>>, stack |-> FALSE]

\* res.status(code).json({ error: msg })
ErrorRes(code, msg) ==
    [status |-> code, shape |-> "error", msg |-> msg, data |-> <<>>, stack |-> FALSE]

\* res.status(code).json(value): the value as JSON.stringify writes it
JsonRes(code, shape, data) ==
    [status |-> code, shape |-> shape, msg |-> "", data |-> data, stack |-> FALSE]

ReadError == "Error con conexion de datos."

\* errorHandler(err, req, res, next)
errorHandler(err) ==
    [status |-> IF err.statusCode = 0 THEN 500 ELSE err.statusCode,
     shape |-> "envelope",
     msg |-> IF err.message = "" THEN "Ocurrio un Error inesperado" ELSE err.message,
     data |-> <<>>,
     stack |-> nodeEnv = "development"]

\* Express's final handler: the error's status, an HTML page, no envelope
FinalHandler(err) ==
    [status |-> IF err.statusCode = 0 THEN 500 ELSE err.statusCode,
     shape |-> "html", msg |-> "", data |-> <<>>, stack |-> FALSE]

(***************************************************************************)
(* The requests.                                                           *)
(***************************************************************************)
MaxRequests == 2

Procs == {"r1", "r2"}

EmptyBody == User(Undefined, Undefined, Undefined)

\* the request bodies express.json() hands to the handlers; 1e999 is a JSON
\* number that JSON.parse reads as Infinity
BodyInputs ==
    {EmptyBody,
     User(Undefined, NameCami, Undefined),
     User(Num(1), NameCami, ValidEmail),
     User(Num(2), NameCami, ValidEmail),
     User(Num(3), NameCami, ValidEmail),
     User(Infinity, NameCami, ValidEmail)}

PathInputs == {<<"1">>, <<"a", "b", "c">>}

StoredEmail == Str(<<"c", "@", "e", ".", "c", "o", "m">>)
StoredUser1 == User(Num(1), NameCamilo, StoredEmail)
StoredUser2 == User(Num(2), NameCamilo, StoredEmail)

InitFiles ==
    {[ok |-> TRUE, users |-> <<>>],
     [ok |-> TRUE, users |-> <<StoredUser1, StoredUser2>>],
     [ok |-> FALSE, users |-> <<>>]}

IdleReq ==
    [pc |-> "idle", route |-> "", userId |-> Undefined, body |-> EmptyBody,
     read |-> "", snapshot |-> <<>>, data |-> <<>>, res |-> NoRes]

Free(p) == ~crashed /\ started < MaxRequests /\ req[p].pc \in {"idle", "done"}

\* a handler's synchronous part ends in a pending fs.readFile
Received(p, route, userId, body) ==
    /\ req' = [req EXCEPT ![p] = [IdleReq EXCEPT !.pc = "reading", !.route = route,
                                                 !.userId = userId, !.body = body]]
    /\ started' = started + 1
    /\ UNCHANGED <<file, crashed, lastWriter, nodeEnv, call, auth>>

Respond(p, res) ==
    req' = [req EXCEPT ![p].pc = "done", ![p].res = res]

\* JSON.parse(data) throws inside the fs callback: nothing catches it, the
\* process ends and no request in flight is answered
ParseThrows(p) ==
    /\ req' = [q \in Procs |->
                IF q = p THEN [req[q] EXCEPT !.pc = "aborted", !.read = "corrupt"]
                ELSE IF req[q].pc \in {"reading", "writing"}
                THEN [req[q] EXCEPT !.pc = "aborted"]
                ELSE req[q]]
    /\ crashed' = TRUE
    /\ UNCHANGED <<file, started, lastWriter, nodeEnv, call, auth>>

\* fs.readFile's callback up to JSON.parse: the outcome "err", the throw, or
\* the parsed array left in snapshot
ReadFile(p, route) ==
    /\ ~crashed
    /\ req[p].pc = "reading"
    /\ req[p].route = route

ReadFails(p) ==
    /\ req' = [req EXCEPT ![p].pc = "done", ![p].read = "err",
                          ![p].res = ErrorRes(500, ReadError)]
    /\ UNCHANGED <<file, crashed, started, lastWriter, nodeEnv, call, auth>>

\* fs.writeFile's callback: the document is replaced, or the write failed
WriteFile(p, route) ==
    /\ ~crashed
    /\ req[p].pc = "writing"
    /\ req[p].route = route

WriteFails(p, msg) ==
    /\ Respond(p, ErrorRes(500, msg))
    /\ UNCHANGED <<file, crashed, started, lastWriter, nodeEnv, call, auth>>

WrittenRebased(p, res) ==
    /\ file' = [ok |-> TRUE,
                users |-> StringifyUsers(
                    IF ~file.ok THEN req[p].data
                    ELSE IF req[p].route = "POST /users"
                    THEN push(file.users, req[p].body)
                    ELSE IF req[p].route = "PUT /users/:id"
                    THEN MapUpdate(file.users, req[p].userId, req[p].body)
                    ELSE FilterOut(file.users, req[p].userId))]
    /\ lastWriter' = p
    /\ Respond(p, res)
    /\ UNCHANGED <<crashed, started, nodeEnv, call, auth>>

Written(p, res) ==
    /\ file' = [ok |-> TRUE, users |-> StringifyUsers(req[p].data)]
    /\ lastWriter' = p
    /\ Respond(p, res)
    /\ UNCHANGED <<crashed, started, nodeEnv, call, auth>>

\* app.get('/users'): the synchronous part
GetUsers(p) ==
    /\ Free(p)
    /\ RouteLayer("GET /users") # 0
    /\ Received(p, "GET /users", Undefined, EmptyBody)

GetUsersRead(p) ==
    /\ ReadFile(p, "GET /users")
    /\ \/ ReadFails(p)
       \/ /\ ~file.ok
          /\ ParseThrows(p)
       \/ /\ file.ok
          /\ req' = [req EXCEPT ![p].pc = "done", ![p].read = "ok",
                                ![p].snapshot = file.users,
                                ![p].res = JsonRes(200, "users", StringifyUsers(file.users))]
          /\ UNCHANGED <<file, crashed, started, lastWriter, nodeEnv, call, auth>>

\* app.post('/users')
PostUsers(p) ==
    /\ Free(p)
    /\ RouteLayer("POST /users") # 0
    /\ \E body \in BodyInputs : Received(p, "POST /users", Undefined, body)

PostUsersRead(p) ==
    /\ ReadFile(p, "POST /users")
    /\ \/ ReadFails(p)
       \/ /\ ~file.ok
          /\ ParseThrows(p)
       \/ /\ file.ok
          /\ LET validation == validateUser(req[p].body, file.users, Undefined)
             IN IF ~validation.isValid
                THEN req' = [req EXCEPT ![p].pc = "done", ![p].read = "ok",
                                        ![p].snapshot = file.users,
                                        ![p].res = ErrorRes(400, validation.error)]
                ELSE req' = [req EXCEPT ![p].pc = "writing", ![p].read = "ok",
                                        ![p].snapshot = file.users,
                                        ![p].data = push(file.users, req[p].body)]
          /\ UNCHANGED <<file, crashed, started, lastWriter, nodeEnv, call, auth>>

PostUsersWritten(p) ==
    /\ WriteFile(p, "POST /users")
    /\ \/ WriteFails(p, "Error al guardar el usuario.")
       \/ Written(p, JsonRes(201, "user", <<StringifyUser(req[p].body)>>))

\* app.put('/users/:id')
PutUsers(p) ==
    /\ Free(p)
    /\ RouteLayer("PUT /users/:id") # 0
    /\ \E path \in PathInputs, body \in BodyInputs :
        IF IsEmptyBody(body)
        THEN /\ req' = [req EXCEPT ![p] = [IdleReq EXCEPT
                            !.pc = "done", !.route = "PUT /users/:id",
                            !.userId = parseInt(path), !.body = body,
                            !.res = ErrorRes(500, "No se recibieron datos.")]]
             /\ started' = started + 1
             /\ UNCHANGED <<file, crashed, lastWriter, nodeEnv, call, auth>>
        ELSE Received(p, "PUT /users/:id", parseInt(path), body)

PutUsersRead(p) ==
    /\ ReadFile(p, "PUT /users/:id")
    /\ \/ ReadFails(p)
       \/ /\ ~file.ok
          /\ ParseThrows(p)
       \/ /\ file.ok
          /\ LET validation == validateUser(req[p].body, file.users, req[p].userId)
             IN IF ~validation.isValid
                THEN req' = [req EXCEPT ![p].pc = "done", ![p].read = "ok",
                                        ![p].snapshot = file.users,
                                        ![p].res = ErrorRes(400, validation.error)]
                ELSE req' = [req EXCEPT ![p].pc = "writing", ![p].read = "ok",
                                        ![p].snapshot = file.users,
                                        ![p].data = MapUpdate(file.users, req[p].userId,
                                                              req[p].body)]
          /\ UNCHANGED <<file, crashed, started, lastWriter, nodeEnv, call, auth>>

PutUsersWritten(p) ==
    /\ WriteFile(p, "PUT /users/:id")
    /\ \/ WriteFails(p, "Error al actualizar el usuario")
       \/ Written(p, JsonRes(200, "user", <<StringifyUser(req[p].body)>>))

\* app.delete('/users/:id')
DeleteUsers(p) ==
    /\ Free(p)
    /\ RouteLayer("DELETE /users/:id") # 0
    /\ \E path \in PathInputs : Received(p, "DELETE /users/:id", parseInt(path), EmptyBody)

DeleteUsersRead(p) ==
    /\ ReadFile(p, "DELETE /users/:id")
    /\ \/ ReadFails(p)
       \/ /\ ~file.ok
          /\ ParseThrows(p)
       \/ /\ file.ok
          /\ req' = [req EXCEPT ![p].pc = "writing", ![p].read = "ok",
                                ![p].snapshot = file.users,
                                ![p].data = FilterOut(file.users, req[p].userId)]
          /\ UNCHANGED <<file, crashed, started, lastWriter, nodeEnv, call, auth>>

DeleteUsersWritten(p) ==
    /\ WriteFile(p, "DELETE /users/:id")
    /\ \/ WriteFails(p, "Error al eliminar el usuario.")
       \/ Written(p, [status |-> 204, shape |-> "empty", msg |-> "", data |-> <<>>,
                      stack |-> FALSE])

\* app.get('/error'): next(new Error('Error intencional'))
GetError(p) ==
    /\ Free(p)
    /\ RouteLayer("GET /error") # 0
    /\ LET err == [statusCode |-> 0, message |-> "Error intencional"]
           layer == NextLayer(RouteLayer("GET /error") + 1, "GET /error", TRUE)
       IN req' = [req EXCEPT ![p] = [IdleReq EXCEPT
                    !.pc = "done", !.route = "GET /error",
                    !.res = IF layer # 0 /\ Stack[layer].name = "errorHandler"
                            THEN errorHandler(err)
                            ELSE FinalHandler(err)]]
    /\ started' = started + 1
    /\ UNCHANGED <<file, crashed, lastWriter, nodeEnv, call, auth>>

(***************************************************************************)
(* The JWT middleware authenticateToken.                                   *)
(***************************************************************************)
\* header.split(' ')
RECURSIVE Split(_)
Split(chars) ==
    IF chars = <<>> THEN << <<>> >>
    ELSE IF Head(chars) = " " THEN << <<>> >> \o Split(Tail(chars))
    ELSE << <<Head(chars)>> \o Split(Tail(chars))[1] >> \o Tail(Split(Tail(chars)))

\* req.header('Authorization')?.split(' ')[1]
TokenOf(header) ==
    IF header = Undefined THEN Undefined
    ELSE IF Len(Split(header.s)) < 2 THEN Undefined
    ELSE Str(Split(header.s)[2])

\* !token
Falsy(v) == v = Undefined \/ v = Null \/ v = Str(<<>>)

\* tokens signed with JWT_SECRET and still valid, with the user id they carry
TokenAlice == <<"t", "A">>
TokenBob == <<"t", "B">>
TokenExpired == <<"t", "X">>
TokenForged == <<"t", "F">>

\* jwt.verify(token, process.env.JWT_SECRET, callback): what the callback gets
jwtVerify(token) ==
    IF token.s = TokenAlice THEN [err |-> FALSE, user |-> "alice"]
    ELSE IF token.s = TokenBob THEN [err |-> FALSE, user |-> "bob"]
    ELSE [err |-> TRUE, user |-> ""]

Bearer == <<"B", "e", "a", "r", "e", "r">>

HeaderInputs ==
    {Undefined,
     Str(<<>>),
     Str(Bearer),
     Str(Bearer \o <<" ">>),
     Str(Bearer \o <<" ">> \o TokenAlice),
     Str(Bearer \o <<" ">> \o TokenBob),
     Str(Bearer \o <<" ">> \o TokenExpired),
     Str(Bearer \o <<" ">> \o TokenForged),
     Str(Bearer \o <<" ", " ">> \o TokenAlice),
     Str(TokenAlice),
     Str(<<"B", "a", "s", "i", "c", " ">> \o TokenBob)}

IdleAuth ==
    [pc |-> "idle", header |-> Undefined, token |-> Undefined, status |-> 0,
     user |-> "", nextCalled |-> FALSE]

\* the synchronous part: no token answers 401, a token goes to jwt.verify
authenticateToken(p) ==
    /\ auth[p].pc = "idle"
    /\ \E header \in HeaderInputs :
        auth' = [auth EXCEPT ![p] =
            IF Falsy(TokenOf(header))
            THEN [IdleAuth EXCEPT !.pc = "done", !.header = header, !.status = 401]
            ELSE [IdleAuth EXCEPT !.pc = "verifying", !.header = header,
                                  !.token = TokenOf(header)]]
    /\ UNCHANGED <<file, req, crashed, started, lastWriter, nodeEnv, call>>

\* jwt.verify's callback up to req.user = user
VerifiedNoReturn(a, out) ==
    IF out.err THEN [a EXCEPT !.pc = "attached", !.status = 403]
    ELSE [a EXCEPT !.pc = "attached", !.user = out.user]

Verified(a, out) ==
    IF out.err THEN [a EXCEPT !.pc = "done", !.status = 403]
    ELSE [a EXCEPT !.pc = "attached", !.user = out.user]

VerifyCallback(p) ==
    /\ auth[p].pc = "verifying"
    /\ auth' = [auth EXCEPT ![p] = Verified(auth[p], jwtVerify(auth[p].token))]
    /\ UNCHANGED <<file, req, crashed, started, lastWriter, nodeEnv, call>>

\* next(), after req.user is set
CallNext(p) ==
    /\ auth[p].pc = "attached"
    /\ auth' = [auth EXCEPT ![p].pc = "done", ![p].nextCalled = TRUE]
    /\ UNCHANGED <<file, req, crashed, started, lastWriter, nodeEnv, call>>

Init ==
    /\ file \in InitFiles
    /\ req = [p \in Procs |-> IdleReq]
    /\ crashed = FALSE
    /\ started = 0
    /\ lastWriter = "none"
    /\ nodeEnv \in {"development", "production"}
    /\ call = NoCall
    /\ auth = [p \in Procs |-> IdleAuth]

Next ==
    \E p \in Procs :
        \/ GetUsers(p) \/ GetUsersRead(p)
        \/ PostUsers(p) \/ PostUsersRead(p) \/ PostUsersWritten(p)
        \/ PutUsers(p) \/ PutUsersRead(p) \/ PutUsersWritten(p)
        \/ DeleteUsers(p) \/ DeleteUsersRead(p) \/ DeleteUsersWritten(p)
        \/ GetError(p)

Spec == Init /\ [][Next]_vars

\* the validator alone, on drawn arguments
InitValidation ==
    /\ file = [ok |-> TRUE, users |-> <<>>]
    /\ req = [p \in Procs |-> IdleReq]
    /\ crashed = FALSE
    /\ started = 0
    /\ lastWriter = "none"
    /\ nodeEnv = "production"
    /\ call \in PendingCalls
    /\ auth = [p \in Procs |-> IdleAuth]

NextValidation == CallValidateUser \/ CallIsUniqueNumericId

SpecValidation == InitValidation /\ [][NextValidation]_vars

\* the JWT middleware alone, on drawn headers
InitAuth ==
    /\ file = [ok |-> TRUE, users |-> <<>>]
    /\ req = [p \in Procs |-> IdleReq]
    /\ crashed = FALSE
    /\ started = 0
    /\ lastWriter = "none"
    /\ nodeEnv = "production"
    /\ call = NoCall
    /\ auth = [p \in Procs |-> IdleAuth]

NextAuth == \E p \in Procs : authenticateToken(p) \/ VerifyCallback(p) \/ CallNext(p)

SpecAuth == InitAuth /\ [][NextAuth]_vars

(***************************************************************************)
(* Properties.                                                             *)
(***************************************************************************)
\* some record of users has exactly the value id as its id
Shares(users, id) == \E i \in 1..Len(users) : users[i].id = id

\* the records of users whose id is not id, in their order
Kept(users, id) == SelectSeq(users, LAMBDA u : u.id # id)

\* a request whose handler changes the document
Mutating(r) == r.route \in {"POST /users", "PUT /users/:id", "DELETE /users/:id"}

\* a read callback of request p that parsed the document
ReadStep(p, route) ==
    req[p].route = route /\ req[p].pc = "reading" /\ req'[p].read = "ok"

\* a write callback of request p whose write succeeded
WriteStep(p, route) ==
    /\ req[p].route = route /\ req[p].pc = "writing"
    /\ req'[p].pc = "done" /\ req'[p].res.status # 500

\* C1: from a stored collection with distinct ids, after any interleaving of
\* Create, Update and Delete, the stored collection never holds two records
\* with the same id.
C1_DistinctIdsAtRest ==
    file.ok =>
        \A i, j \in 1..Len(file.users) :
            (i # j /\ file.users[i].id # Undefined) =>
                file.users[i].id # file.users[j].id

\* C2 as stated: after a successful read, a candidate validateUser accepts is
\* answered 201 with the candidate, one it rejects 400 with the message.
C2_AcceptedAnswers201 ==
    \A p \in Procs :
        (req[p].route = "POST /users" /\ req[p].pc = "done" /\ req[p].read = "ok") =>
            LET v == validateUser(req[p].body, req[p].snapshot, Undefined)
            IN IF v.isValid
               THEN req[p].res = JsonRes(201, "user", <<StringifyUser(req[p].body)>>)
               ELSE req[p].res = ErrorRes(400, v.error)

\* C2 amended: Create, when the file read and the file write succeed: a
\* candidate validateUser accepts against the collection read is answered
\* 201 with the candidate (as JSON) and the document becomes the collection
\* read with the candidate appended at the end; a candidate it rejects is
\* answered 400 with the validator's message and nothing is written.
C2_CreateAppendsOrRejects ==
    [][\A p \in Procs :
        /\ ReadStep(p, "POST /users") =>
            LET v == validateUser(req[p].body, file.users, Undefined)
            IN /\ req'[p].snapshot = file.users
               /\ file' = file
               /\ IF v.isValid THEN req'[p].pc = "writing"
                  ELSE req'[p].pc = "done" /\ req'[p].res = ErrorRes(400, v.error)
        /\ WriteStep(p, "POST /users") =>
            /\ req'[p].res = JsonRes(201, "user", <<StringifyUser(req[p].body)>>)
            /\ file' = [ok |-> TRUE,
                        users |-> req[p].snapshot \o <<StringifyUser(req[p].body)>>]
      ]_vars

\* a third record was appended after the two stored ones
C2_Witness ==
    \E p \in Procs :
        /\ req[p].route = "POST /users" /\ req[p].pc = "done" /\ req[p].res.status = 201
        /\ req[p].snapshot = <<StoredUser1, StoredUser2>>
        /\ file.ok /\ file.users = <<StoredUser1, StoredUser2, req[p].body>>

C4_DeleteRemovesMatching ==
    [][\A p \in Procs :
        /\ ReadStep(p, "DELETE /users/:id") =>
            /\ req'[p].pc = "writing"
            /\ req'[p].snapshot = file.users
            /\ file' = file
        /\ WriteStep(p, "DELETE /users/:id") =>
            /\ req'[p].res = [status |-> 204, shape |-> "empty", msg |-> "",
                              data |-> <<>>, stack |-> FALSE]
            /\ file' = [ok |-> TRUE, users |-> Kept(req[p].snapshot, req[p].userId)]
            /\ ~Shares(req[p].snapshot, req[p].userId) => file'.users = req[p].snapshot
      ]_vars

\* record 1 was removed and record 2 kept
C4_Witness ==
    \E p \in Procs :
        /\ req[p].route = "DELETE /users/:id" /\ req[p].pc = "done"
        /\ req[p].res.status = 204 /\ req[p].userId = Num(1)
        /\ req[p].snapshot = <<StoredUser1, StoredUser2>>
        /\ file.ok /\ file.users = <<StoredUser2>>

\* what request r alone makes of the collection it read
AloneOnSnapshot(r) ==
    IF r.route = "POST /users" THEN r.snapshot \o <<StringifyUser(r.body)>>
    ELSE IF r.route = "DELETE /users/:id" THEN Kept(r.snapshot, r.userId)
    ELSE [i \in 1..Len(r.snapshot) |->
            IF r.snapshot[i].id = r.userId
            THEN StringifyUser(
                    User(IF r.body.id = Undefined THEN r.snapshot[i].id ELSE r.body.id,
                         IF r.body.name = Undefined THEN r.snapshot[i].name ELSE r.body.name,
                         IF r.body.email = Undefined THEN r.snapshot[i].email
                         ELSE r.body.email))
            ELSE r.snapshot[i]]

Acknowledged(r) == Mutating(r) /\ r.pc = "done" /\ r.res.status \in {200, 201, 204}

\* C5: when two mutating requests read the same snapshot and both are
\* acknowledged, the document is what the one that wrote second makes of
\* that snapshot alone: the mutation of the first is not in it.
C5_SecondWriteWins ==
    \A p, q \in Procs :
        (/\ p # q
         /\ Acknowledged(req[p]) /\ Acknowledged(req[q])
         /\ req[p].snapshot = req[q].snapshot
         /\ lastWriter = q) =>
            file = [ok |-> TRUE, users |-> AloneOnSnapshot(req[q])]

\* two creates were both answered 201; the record of the first is gone
C5_Witness ==
    \E p, q \in Procs :
        /\ p # q
        /\ req[p].route = "POST /users" /\ req[q].route = "POST /users"
        /\ Acknowledged(req[p]) /\ Acknowledged(req[q])
        /\ req[p].snapshot = req[q].snapshot
        /\ req[p].body # req[q].body
        /\ lastWriter = q
        /\ file.users = req[q].snapshot \o <<req[q].body>>
        /\ \A i \in 1..Len(file.users) : file.users[i] # req[p].body

\* C6: a handler that reads a document that is not well-formed JSON answers
\* 500 with the storage-error body.
C6_ParseErrorAnswers500 ==
    \A p \in Procs :
        req[p].read = "corrupt" =>
            (req[p].pc = "done" /\ req[p].res = ErrorRes(500, ReadError))

\* C7: the error GET /error forwards with next(err) is answered by
\* errorHandler: status 500, the envelope {status, statusCode, message}, and
\* stack only when NODE_ENV is development.
C7_ForwardedErrorGetsEnvelope ==
    \A p \in Procs :
        (req[p].route = "GET /error" /\ req[p].pc = "done") =>
            req[p].res = [status |-> 500, shape |-> "envelope",
                          msg |-> "Error intencional", data |-> <<>>,
                          stack |-> nodeEnv = "development"]

\* C8 as stated: isUniqueNumericId(id, collection) is true if and only if id
\* is an integer and no record of the collection has that id.
C8_TrueIffIntegerAndUnshared ==
    call.fn = "isUniqueNumericId" =>
        (call.result.isValid <=>
            (IsInteger(call.user.id) /\ ~Shares(call.users, call.user.id)))

\* C8 amended: isUniqueNumericId(id, collection) is true if and only if id is
\* of type number (integral or not) and no record of the collection has that
\* id; a string id, numeric or not, gives false even when no record shares it.
C8_TrueIffNumberAndUnshared ==
    call.fn = "isUniqueNumericId" =>
        /\ call.result.isValid <=>
            (call.user.id.t = "number" /\ ~Shares(call.users, call.user.id))
        /\ call.user.id.t = "string" => ~call.result.isValid

\* 5.5, shared by no record, is accepted
C8_Witness ==
    /\ call.fn = "isUniqueNumericId"
    /\ call.users = <<User(Num(1), NameCamilo, ValidEmail)>>
    /\ call.user.id = Frac(5, 5)
    /\ call.result.isValid

\* C9: validateUser checks name, then email, then id, and returns on the
\* first failure: a name that is not a string of length >= 3 gives the name
\* message whatever the email and id are; the email message comes only with
\* a valid name; the id message only with a valid name and a valid email;
\* and a candidate whose id equals (===) the id being updated passes the id
\* check.
C9_FirstFailureInOrder ==
    call.fn = "validateUser" =>
        LET nameOk == call.user.name.t = "string" /\ Len(call.user.name.s) >= 3
            emailOk == MatchesEmailRegex(JsString(call.user.email))
            r == call.result
        IN /\ ~nameOk => (~r.isValid /\ r.error = NameError)
           /\ (nameOk /\ ~emailOk) => (~r.isValid /\ r.error = EmailError)
           /\ r.error = EmailError => nameOk
           /\ r.error = IdError => (nameOk /\ emailOk /\ ~r.isValid)
           /\ (nameOk /\ emailOk /\ StrictEq(call.user.id, call.upd)) => r.isValid
           /\ r.isValid => (nameOk /\ emailOk /\ r.error = "")

\* a bad name together with a bad email and a taken id reports the name
C9_Witness ==
    /\ call.fn = "validateUser"
    /\ call.user = User(Num(1), NameCa, Str(<<"a", "@", "b">>))
    /\ call.users = <<User(Num(1), NameCamilo, ValidEmail)>>
    /\ call.upd = Undefined
    /\ call.result = [isValid |-> FALSE, error |-> NameError]

\* C10: authenticateToken ends every request in exactly one of three ways:
\* without a token, 401 and next is never called; with a token that fails
\* verification, 403 and next is never called; with a token that verifies,
\* the decoded claims are on req.user before next is called and the
\* middleware sends no response.
C10_ThreeOutcomes ==
    \A p \in Procs :
        LET a == auth[p]
            pieces == IF a.header = Undefined THEN <<>> ELSE Split(a.header.s)
            hasToken == Len(pieces) >= 2 /\ pieces[2] # <<>>
            verifies == hasToken /\ pieces[2] \in {TokenAlice, TokenBob}
            claims == IF pieces[2] = TokenAlice THEN "alice" ELSE "bob"
        IN /\ a.nextCalled => (verifies /\ a.status = 0 /\ a.user = claims)
           /\ a.status = 401 => (~hasToken /\ ~a.nextCalled /\ a.pc = "done")
           /\ a.status = 403 => (hasToken /\ ~verifies /\ ~a.nextCalled /\ a.pc = "done")
           /\ a.status \in {0, 401, 403}
           /\ a.pc = "done" =>
                \/ ~hasToken /\ a.status = 401
                \/ hasToken /\ ~verifies /\ a.status = 403
                \/ verifies /\ a.status = 0 /\ a.nextCalled

\* the three outcomes side by side: one request refused 403, the other let
\* through with its claims; and a request without a token refused 401
C10_Witness ==
    /\ auth["r1"].pc = "done" /\ auth["r1"].status \in {401, 403} /\ ~auth["r1"].nextCalled
    /\ auth["r2"].pc = "done" /\ auth["r2"].nextCalled /\ auth["r2"].user = "bob"
    /\ auth["r2"].header = Str(Bearer \o <<" ">> \o TokenBob)

\* C11: Update with a missing or empty payload is answered 500 (not 400)
\* with an error body at once, without reading or writing the document, so
\* the stored collection is unchanged.
C11_EmptyUpdateAnswers500 ==
    [][\A p \in Procs :
        (/\ req'[p].route = "PUT /users/:id"
         /\ req'[p].body = User(Undefined, Undefined, Undefined)) =>
            /\ req'[p].pc = "done"
            /\ req'[p].res = ErrorRes(500, "No se recibieron datos.")
            /\ req'[p].read = ""
            /\ req'[p].data = <<>>
            /\ req'[p] # req[p] => (file' = file /\ lastWriter' = lastWriter)
      ]_vars

\* an empty update was answered 500 and the two stored records are in place
C11_Witness ==
    \E p \in Procs :
        /\ req[p].route = "PUT /users/:id" /\ req[p].pc = "done"
        /\ req[p].body = User(Undefined, Undefined, Undefined)
        /\ req[p].res.status = 500 /\ req[p].read = ""
        /\ lastWriter = "none"
        /\ file = [ok |-> TRUE, users |-> <<StoredUser1, StoredUser2>>]

\* a request whose path id segment holds no leading digit
NonNumericPath(r) == r.userId.t = "number" /\ r.userId.k = "NaN"

NoContent == [status |-> 204, shape |-> "empty", msg |-> "", data |-> <<>>, stack |-> FALSE]

\* C12 as stated: with a non-numeric path id, an Update whose payload passes
\* validation is answered 200 and a Delete is answered 204.
C12_NonNumericIdAnswersSuccess ==
    \A p \in Procs :
        (/\ NonNumericPath(req[p]) /\ req[p].pc = "done" /\ req[p].read = "ok"
         /\ req[p].route = "PUT /users/:id" =>
                validateUser(req[p].body, req[p].snapshot, req[p].userId).isValid) =>
            req[p].res.status = IF req[p].route = "PUT /users/:id" THEN 200 ELSE 204

\* C12 amended: with a non-numeric path id (parsed to NaN), when the file
\* read and the file write succeed, an Update whose payload passes
\* validation is answered 200 and a Delete is answered 204, and either one
\* writes back the collection it read: the same records in the same order.
C12_NonNumericIdChangesNothing ==
    [][\A p \in Procs :
        /\ (ReadStep(p, "PUT /users/:id") /\ NonNumericPath(req[p])
            /\ validateUser(req[p].body, file.users, req[p].userId).isValid) =>
                (req'[p].pc = "writing" /\ req'[p].snapshot = file.users /\ file' = file)
        /\ (ReadStep(p, "DELETE /users/:id") /\ NonNumericPath(req[p])) =>
                (req'[p].pc = "writing" /\ req'[p].snapshot = file.users /\ file' = file)
        /\ (WriteStep(p, "PUT /users/:id") /\ NonNumericPath(req[p])) =>
            /\ req'[p].res = JsonRes(200, "user", <<StringifyUser(req[p].body)>>)
            /\ file' = [ok |-> TRUE, users |-> req[p].snapshot]
        /\ (WriteStep(p, "DELETE /users/:id") /\ NonNumericPath(req[p])) =>
            /\ req'[p].res = NoContent
            /\ file' = [ok |-> TRUE, users |-> req[p].snapshot]
      ]_vars

\* PUT /users/abc was answered 200 and DELETE /users/abc 204; both stored
\* records are in place, in their order
C12_Witness ==
    \E p, q \in Procs :
        /\ req[p].route = "PUT /users/:id" /\ NonNumericPath(req[p])
        /\ req[p].pc = "done" /\ req[p].res.status = 200
        /\ req[q].route = "DELETE /users/:id" /\ NonNumericPath(req[q])
        /\ req[q].pc = "done" /\ req[q].res.status = 204
        /\ req[p].snapshot = <<StoredUser1, StoredUser2>>
        /\ req[q].snapshot = <<StoredUser1, StoredUser2>>
        /\ file = [ok |-> TRUE, users |-> <<StoredUser1, StoredUser2>>]

====
